---- MODULE Spec2Model ----
(***************************************************************************)
(* A model of polkadot primitives v1 (src/primitives/src/v1.rs):           *)
(*   - check_candidate_backing          (specification SpecBacking)       *)
(*   - check_collator_signature          (specification SpecCollator)      *)
(*   - collator_signature_payload        (specification SpecPayload)       *)
(*   - GroupRotationInfo arithmetic      (specification SpecRotation)      *)
(* Every function is pure; each specification draws the function's inputs  *)
(* in its initial states and then runs the function, one step of its body  *)
(* per action.  Variables of the other specifications stay idle.           *)
(***************************************************************************)
EXTENDS Integers, Sequences, FiniteSets, TLC

VARIABLES
    \* ---- check_candidate_backing: the arguments
    backed,            \* BackedCandidate {candidate, validity_votes, validator_indices}
    signing_context,   \* SigningContext
    group_len,         \* usize
    lookup_missing,    \* the group-local indices validator_lookup answers None for
    \* ---- check_candidate_backing: the locals
    bc_pc,             \* "idle" | "start" | "loop" | "after" | "done"
    bit_pos,           \* position of the validator_indices iterator (0-based)
    vote_pos,          \* entries of validity_votes consumed by the zip
    signed,            \* let mut signed
    bc_result,         \* [tag |-> "None"] | [tag |-> "Ok", n |-> _] | [tag |-> "Err"]
    lookups,           \* the indices validator_lookup was called with, in order
    verifs,            \* the sig.verify calls made, in order
    \* ---- CandidateDescriptor::check_collator_signature
    descriptor,        \* the CandidateDescriptor (self)
    cs_results,        \* the results of the successive calls on it
    \* ---- collator_signature_payload
    pl_args,           \* the argument tuples of the calls made, in order
    pl_outs,           \* the payloads they returned
    \* ---- GroupRotationInfo
    rotation_info,     \* {session_start_block, group_rotation_frequency, now}
    target,            \* the build: {usize_max, overflow_checks}
    rot_call,          \* the last call made and its arguments
    rot_result         \* its result: [tag |-> "None" | "Value" | "Panic", ...]

bc_vars == <<backed, signing_context, group_len, lookup_missing, bc_pc, bit_pos,
             vote_pos, signed, bc_result, lookups, verifs>>
cs_vars == <<descriptor, cs_results>>
pl_vars == <<pl_args, pl_outs>>
rot_vars == <<rotation_info, target, rot_call, rot_result>>
vars == <<bc_vars, cs_vars, pl_vars, rot_vars>>

Idle == "idle"
NoDescriptor == [idle |-> TRUE]

(***************************************************************************)
(* Bounds of the model.                                                    *)
(***************************************************************************)
\* The largest validator group (and bitfield, and vote list) explored.
MaxGroup == 2

\* How many calls of a function are made on, and compared for, the same inputs.
MaxCalls == 2

\* The stand-in for u32::MAX: block numbers and core indices are 0..U32Max and
\* wrap modulo U32Max + 1.
U32Max == 7

(***************************************************************************)
(* Opaque primitives: the hash function, the codec and the signature       *)
(* scheme.  A digest is the tagged encoding it was computed from (no       *)
(* collisions); a signature names the key that made it and the exact       *)
(* message it was made over, and verifies only against those.              *)
(***************************************************************************)
BlakeTwo256(encoded) == <<"blake2_256", encoded>>

Verify(sig, payload, public) == sig.signer = public /\ sig.msg = payload

\* Option<T>
None == [some |-> FALSE]
Some(v) == [some |-> TRUE, v |-> v]

RNone == [tag |-> "None"]
ROk(v) == [tag |-> "Ok", n |-> v]
RErr == [tag |-> "Err"]

(***************************************************************************)
(* Candidate receipts and their hashes.                                    *)
(***************************************************************************)
\* CandidateCommitments::hash: the digest of the encoded commitments.
CommitmentsHash(commitments) == BlakeTwo256(<<"CandidateCommitments", commitments>>)

\* CommittedCandidateReceipt::to_plain
to_plain(c) ==
    [descriptor |-> c.descriptor, commitments_hash |-> CommitmentsHash(c.commitments)]

\* CandidateReceipt::hash: the digest of the encoded plain receipt.
ReceiptHash(r) ==
    BlakeTwo256(<<"CandidateReceipt", r.descriptor, r.commitments_hash>>)

\* CommittedCandidateReceipt::hash: the canonical hash.
CommittedHash(c) == ReceiptHash(to_plain(c))

\* The digest of the committed form's own encoding (never the canonical hash).
DirectHash(c) ==
    BlakeTwo256(<<"CommittedCandidateReceipt", c.descriptor, c.commitments>>)

(***************************************************************************)
(* Validity attestations (v0::ValidityAttestation).                         *)
(***************************************************************************)
\* ValidityAttestation::signed_payload: the encoded (CompactStatement, context).
signed_payload(attestation, candidate_hash, context) ==
    [statement |-> IF attestation.kind = "Implicit" THEN "Candidate" ELSE "Valid",
     hash |-> candidate_hash,
     context |-> context]

\* ValidityAttestation::signature
signature(attestation) == attestation.sig

(***************************************************************************)
(* check_candidate_backing                                                 *)
(***************************************************************************)
\* The validator identity behind a group-local index: index i of the group is
\* validator i + 1, unless the lookup misses it.
validator_lookup(val_in_group_idx) ==
    IF val_in_group_idx \in lookup_missing THEN None ELSE Some(val_in_group_idx + 1)

\* The bitfield iterator without its filter: the next position, set or not.
NoFilterSetBit(bits, from) ==
    IF from < Len(bits) THEN Some(from) ELSE None

\* backed.validator_indices.iter().enumerate().filter(|(_, signed)| **signed):
\* the next set bit at or after the 0-based position from, or None.
NextSetBit(bits, from) ==
    LET set == {i \in from..(Len(bits) - 1) : bits[i + 1]}
    IN  IF set = {} THEN None
        ELSE Some(CHOOSE i \in set : \A j \in set : i <= j)

\* The test of the signature inside the loop.
SigVerifies(sig, payload, validator_id) == Verify(sig, payload, validator_id)

\* The candidate hash the payloads are built from; and the digest of the
\* committed form's own encoding in its place.
HashOfEncoding(candidate) == DirectHash(candidate)

BackingHash(candidate) == CommittedHash(candidate)

\* The two length checks before anything else; and the first of them alone.
OnlyIndicesLengthCheck(indices_len, votes_len, glen) == ~(indices_len # glen)

LengthsOk(indices_len, votes_len, glen) ==
    /\ ~(indices_len # glen)
    /\ ~(votes_len > glen)

\* The final comparison of the counter with the votes supplied; and none at all.
NoCountCheck(count, votes_len) == TRUE

CountOk(count, votes_len) == ~(count # votes_len)

BackingStart ==
    /\ bc_pc = "start"
    /\ IF LengthsOk(Len(backed.validator_indices), Len(backed.validity_votes), group_len)
       THEN /\ bc_pc' = "loop"
            /\ bc_result' = bc_result
       ELSE /\ bc_pc' = "done"
            /\ bc_result' = RErr
    /\ UNCHANGED <<backed, signing_context, group_len, lookup_missing, bit_pos,
                   vote_pos, signed, lookups, verifs>>
    /\ UNCHANGED <<cs_vars, pl_vars, rot_vars>>

\* One turn of the for loop: the zip asks the filtered bitfield for its next set
\* bit, then the votes for their next entry; with both at hand the body runs.
BackingLoop ==
    /\ bc_pc = "loop"
    /\ LET next_bit == NextSetBit(backed.validator_indices, bit_pos)
       IN  IF next_bit = None \/ vote_pos >= Len(backed.validity_votes)
           THEN /\ bc_pc' = "after"
                /\ UNCHANGED <<bit_pos, vote_pos, signed, bc_result, lookups, verifs>>
           ELSE LET val_in_group_idx == next_bit.v
                    attestation == backed.validity_votes[vote_pos + 1]
                    looked_up == validator_lookup(val_in_group_idx)
                    payload == signed_payload(attestation, BackingHash(backed.candidate),
                                              signing_context)
                    sig == signature(attestation)
                IN  /\ bit_pos' = val_in_group_idx + 1
                    /\ vote_pos' = vote_pos + 1
                    /\ lookups' = Append(lookups, val_in_group_idx)
                    /\ IF looked_up = None
                       THEN /\ bc_pc' = "done"
                            /\ bc_result' = RErr
                            /\ UNCHANGED <<signed, verifs>>
                       ELSE /\ verifs' = Append(verifs,
                                   [vote |-> vote_pos + 1, validator |-> looked_up.v,
                                    payload |-> payload])
                            /\ IF SigVerifies(sig, payload, looked_up.v)
                               THEN /\ signed' = signed + 1
                                    /\ UNCHANGED <<bc_pc, bc_result>>
                               ELSE /\ bc_pc' = "done"
                                    /\ bc_result' = RErr
                                    /\ signed' = signed
    /\ UNCHANGED <<backed, signing_context, group_len, lookup_missing>>
    /\ UNCHANGED <<cs_vars, pl_vars, rot_vars>>

BackingFinish ==
    /\ bc_pc = "after"
    /\ bc_pc' = "done"
    /\ bc_result' = IF CountOk(signed, Len(backed.validity_votes))
                    THEN ROk(signed) ELSE RErr
    /\ UNCHANGED <<backed, signing_context, group_len, lookup_missing, bit_pos,
                   vote_pos, signed, lookups, verifs>>
    /\ UNCHANGED <<cs_vars, pl_vars, rot_vars>>

(***************************************************************************)
(* The inputs of check_candidate_backing explored.                         *)
(***************************************************************************)
SeqsUpTo(S, n) == UNION {[1..k -> S] : k \in 0..n}

TheCandidate == [descriptor |-> "d1", commitments |-> "c1"]
OtherCandidate == [descriptor |-> "d1", commitments |-> "c2"]

TheContext == "ctx1"

\* Validators are 1..MaxGroup: group index i is validator i + 1.
ValidatorIds == 1..MaxGroup

Attestation(kind, signer, statement, hash, context) ==
    [kind |-> kind,
     sig |-> [signer |-> signer,
              msg |-> [statement |-> statement, hash |-> hash, context |-> context]]]

\* Votes properly signed for TheCandidate in TheContext, of both kinds, by every
\* validator; and votes of validator 1 that are off in exactly one respect.
GoodVotes ==
    {Attestation("Implicit", v, "Candidate", CommittedHash(TheCandidate), TheContext)
        : v \in ValidatorIds}
    \cup
    {Attestation("Explicit", v, "Valid", CommittedHash(TheCandidate), TheContext)
        : v \in ValidatorIds}

BadVotes ==
    {Attestation("Implicit", 1, "Valid", CommittedHash(TheCandidate), TheContext),
     Attestation("Explicit", 1, "Valid", DirectHash(TheCandidate), TheContext),
     Attestation("Explicit", 1, "Valid", CommittedHash(OtherCandidate), TheContext),
     Attestation("Implicit", 1, "Candidate", CommittedHash(TheCandidate), "ctx2")}

Votes == GoodVotes \cup BadVotes

IdleBacking ==
    /\ backed = Idle /\ signing_context = Idle /\ group_len = 0
    /\ lookup_missing = {} /\ bc_pc = Idle /\ bit_pos = 0 /\ vote_pos = 0
    /\ signed = 0 /\ bc_result = RNone /\ lookups = <<>> /\ verifs = <<>>

IdleCollator == descriptor = NoDescriptor /\ cs_results = <<>>

IdlePayload == pl_args = <<>> /\ pl_outs = <<>>

IdleRotation ==
    /\ rotation_info = Idle /\ target = Idle /\ rot_call = Idle /\ rot_result = RNone

InitBacking ==
    /\ backed \in [candidate : {TheCandidate, OtherCandidate},
                   validity_votes : SeqsUpTo(Votes, MaxGroup),
                   validator_indices : SeqsUpTo(BOOLEAN, MaxGroup)]
    /\ signing_context = TheContext
    /\ group_len \in 0..MaxGroup
    /\ lookup_missing \in SUBSET (0..(MaxGroup - 1))
    /\ bc_pc = "start"
    /\ bit_pos = 0
    /\ vote_pos = 0
    /\ signed = 0
    /\ bc_result = RNone
    /\ lookups = <<>>
    /\ verifs = <<>>
    /\ IdleCollator /\ IdlePayload /\ IdleRotation

NextBacking == BackingStart \/ BackingLoop \/ BackingFinish

SpecBacking == InitBacking /\ [][NextBacking]_vars

(***************************************************************************)
(* collator_signature_payload                                              *)
(***************************************************************************)
\* <u32 as Encode>::using_encoded: the four bytes of n, least significant first.
EncodeU32(n) ==
    <<n % 256, (n \div 256) % 256, (n \div 65536) % 256, (n \div 16777216) % 256>>

\* payload[lo..hi].copy_from_slice(src), with lo and hi 0-based as in the source.
copy_from_slice(payload, lo, hi, src) ==
    [i \in 1..Len(payload) |-> IF lo < i /\ i <= hi THEN src[i - lo] ELSE payload[i]]

\* The same function with the last two hashes written in each other's place.
collator_signature_payload_swapped(relay_parent, para_id, persisted_validation_data_hash, pov_hash) ==
    LET p0 == [i \in 1..100 |-> 0]
        p1 == copy_from_slice(p0, 0, 32, relay_parent)
        s  == EncodeU32(para_id)
        p2 == copy_from_slice(p1, 32, 32 + Len(s), s)
        p3 == copy_from_slice(p2, 36, 68, pov_hash)
        p4 == copy_from_slice(p3, 68, 100, persisted_validation_data_hash)
    IN  p4

\* relay_parent is the default H = Hash, 32 bytes long.
collator_signature_payload(relay_parent, para_id, persisted_validation_data_hash, pov_hash) ==
    LET p0 == [i \in 1..100 |-> 0]
        p1 == copy_from_slice(p0, 0, 32, relay_parent)
        s  == EncodeU32(para_id)
        p2 == copy_from_slice(p1, 32, 32 + Len(s), s)
        p3 == copy_from_slice(p2, 36, 68, persisted_validation_data_hash)
        p4 == copy_from_slice(p3, 68, 100, pov_hash)
    IN  p4

\* The check with only the signer compared, whatever was signed.
check_collator_signature_any(relay_parent, para_id, persisted_validation_data_hash, pov_hash, collator, sig) ==
    LET payload == collator_signature_payload(relay_parent, para_id,
                                              persisted_validation_data_hash, pov_hash)
    IN  IF sig.signer = collator THEN "Ok" ELSE "Err"

\* The free function check_collator_signature.
check_collator_signature(relay_parent, para_id, persisted_validation_data_hash, pov_hash, collator, sig) ==
    LET payload == collator_signature_payload(relay_parent, para_id,
                                              persisted_validation_data_hash, pov_hash)
    IN  IF Verify(sig, payload, collator) THEN "Ok" ELSE "Err"

\* A 32-byte hash with every byte b, and one with bytes b, b + 1, ...
FilledHash(b) == [i \in 1..32 |-> b]
RisingHash(b) == [i \in 1..32 |-> b + i - 1]

Hashes == {FilledHash(1), RisingHash(2)}

\* Para ids with one to four non-zero bytes.
ParaIds == {0, 5, 256, 258, 16909060, 2147483647}

PayloadArgs ==
    [relay_parent : Hashes, para_id : ParaIds,
     persisted_validation_data_hash : Hashes, pov_hash : Hashes]

\* One call of collator_signature_payload.
PayloadCall ==
    /\ Len(pl_args) < MaxCalls
    /\ \E a \in PayloadArgs :
        /\ pl_args' = Append(pl_args, a)
        /\ pl_outs' = Append(pl_outs,
                collator_signature_payload(a.relay_parent, a.para_id,
                    a.persisted_validation_data_hash, a.pov_hash))
    /\ UNCHANGED <<bc_vars, cs_vars, rot_vars>>

InitPayload ==
    /\ pl_args = <<>>
    /\ pl_outs = <<>>
    /\ IdleBacking /\ IdleCollator /\ IdleRotation

NextPayload == PayloadCall

SpecPayload == InitPayload /\ [][NextPayload]_vars

(***************************************************************************)
(* CandidateDescriptor::check_collator_signature                           *)
(***************************************************************************)
CollatorIds == {"alice", "bob"}

DescriptorHashes == {FilledHash(1), RisingHash(2)}
DescriptorParaIds == {5, 258}

\* The collator signatures explored: by either collator, over the payload of any
\* of the field combinations explored.
CollatorSignatures ==
    {[signer |-> c,
      msg |-> collator_signature_payload(rp, id, pvd, pov)]
        : c \in CollatorIds, rp \in DescriptorHashes, id \in DescriptorParaIds,
          pvd \in DescriptorHashes, pov \in DescriptorHashes}

Descriptors ==
    [para_id : DescriptorParaIds, relay_parent : DescriptorHashes,
     collator : CollatorIds, persisted_validation_data_hash : DescriptorHashes,
     pov_hash : DescriptorHashes, signature : CollatorSignatures]

\* descriptor.check_collator_signature(): takes &self, returns the result.
CheckCollatorSignature ==
    /\ descriptor # NoDescriptor
    /\ Len(cs_results) < MaxCalls
    /\ cs_results' = Append(cs_results,
            check_collator_signature(descriptor.relay_parent, descriptor.para_id,
                                     descriptor.persisted_validation_data_hash,
                                     descriptor.pov_hash, descriptor.collator,
                                     descriptor.signature))
    /\ UNCHANGED descriptor
    /\ UNCHANGED <<bc_vars, pl_vars, rot_vars>>

InitCollator ==
    /\ descriptor \in Descriptors
    /\ cs_results = <<>>
    /\ IdleBacking /\ IdlePayload /\ IdleRotation

NextCollator == CheckCollatorSignature

SpecCollator == InitCollator /\ [][NextCollator]_vars

(***************************************************************************)
(* Properties of the collator signature.                                   *)
(***************************************************************************)
\* The four little-endian bytes at offsets 32..35 of a payload, as a number.
ParaIdField(out) == out[33] + 256 * out[34] + 65536 * out[35] + 16777216 * out[36]

\* The payload as the concatenation of its four fields.
PayloadOf(d) ==
    d.relay_parent
    \o <<d.para_id % 256, (d.para_id \div 256) % 256,
         (d.para_id \div 65536) % 256, d.para_id \div 16777216>>
    \o d.persisted_validation_data_hash
    \o d.pov_hash

\* C7: check_collator_signature returns Ok exactly when the signature-verify
\* primitive accepts the descriptor's own signature over the 100-byte payload of
\* the descriptor's own relay_parent, para_id, persisted_validation_data_hash and
\* pov_hash under the descriptor's own collator key, and Err otherwise; the
\* descriptor is left as it was, and a second call gives the same result.
C7_ResultsAgreeWithVerify ==
    \A k \in 1..Len(cs_results) :
        /\ cs_results[k] \in {"Ok", "Err"}
        /\ cs_results[k] = "Ok" <=>
             Verify(descriptor.signature, PayloadOf(descriptor), descriptor.collator)
        /\ cs_results[k] = cs_results[1]

C7_CollatorSignature ==
    /\ []C7_ResultsAgreeWithVerify
    /\ [][descriptor' = descriptor]_vars

\* Two calls on a properly signed descriptor.
C7_Witness ==
    /\ descriptor # NoDescriptor
    /\ Len(cs_results) = 2
    /\ cs_results[2] = "Ok"

\* Two calls on a descriptor signed by its collator over another pov_hash.
C7_WitnessErr ==
    /\ descriptor # NoDescriptor
    /\ Len(cs_results) = 2
    /\ cs_results[2] = "Err"
    /\ descriptor.signature.signer = descriptor.collator

\* C8: the payload is exactly 100 bytes: relay_parent at [0,32), the 4-byte
\* little-endian para_id at [32,36), persisted_validation_data_hash at [36,68)
\* and pov_hash at [68,100).  The fields cover every byte and do not overlap, so
\* the same arguments give the same payload and different arguments different
\* payloads.
C8_PayloadLayout ==
    /\ Len(pl_outs) = Len(pl_args)
    /\ \A k \in 1..Len(pl_args) :
        LET a == pl_args[k]
            out == pl_outs[k]
        IN  /\ Len(out) = 100
            /\ \A i \in 1..100 : out[i] \in 0..255
            /\ SubSeq(out, 1, 32) = a.relay_parent
            /\ ParaIdField(out) = a.para_id
            /\ SubSeq(out, 37, 68) = a.persisted_validation_data_hash
            /\ SubSeq(out, 69, 100) = a.pov_hash
    /\ \A j, k \in 1..Len(pl_args) : pl_args[j] = pl_args[k] <=> pl_outs[j] = pl_outs[k]

\* Two calls whose arguments differ only in a high byte of para_id.
C8_Witness ==
    /\ Len(pl_args) = 2
    /\ pl_args[1].para_id = 258
    /\ pl_args[2].para_id = 16909060
    /\ pl_args[1].relay_parent = pl_args[2].relay_parent
    /\ pl_args[1].persisted_validation_data_hash = FilledHash(1)
    /\ pl_args[1].pov_hash = RisingHash(2)
    /\ pl_outs[1] # pl_outs[2]

(***************************************************************************)
(* GroupRotationInfo                                                       *)
(***************************************************************************)
\* BlockNumber and CoreIndex are u32; usize is as wide as the build target makes
\* it (32 bits on wasm32, 64 bits on the usual hosts); an addition that overflows
\* panics in a build with overflow checks and wraps in one without.
U32 == 0..U32Max
UsizeMax32 == U32Max
UsizeMax64 == (U32Max + 1) * (U32Max + 1) - 1

Targets == [usize_max : {UsizeMax32, UsizeMax64}, overflow_checks : BOOLEAN]

Value(v) == [tag |-> "Value", v |-> v]
Panic == [tag |-> "Panic"]

\* a.saturating_sub(b)
saturating_sub(a, b) == IF a >= b THEN a - b ELSE 0

\* sp_std::cmp::min
min(a, b) == IF a <= b THEN a ELSE b

\* a + b in an unsigned type of maximum max.
checked_add(a, b, max, tgt) ==
    IF a + b <= max THEN Value(a + b)
    ELSE IF tgt.overflow_checks THEN Panic
    ELSE Value((a + b) % (max + 1))

\* The same function with the two early returns in the other order.
group_for_core_cores_first(info, core_index, cores, tgt) ==
    IF cores = 0 THEN Value(0)
    ELSE IF info.group_rotation_frequency = 0 THEN Value(core_index)
    ELSE
        LET capped == min(cores, U32Max)
            blocks_since_start == saturating_sub(info.now, info.session_start_block)
            rotations == blocks_since_start \div info.group_rotation_frequency
            sum == checked_add(core_index, rotations, tgt.usize_max, tgt)
        IN  IF sum = Panic THEN Panic
            ELSE Value((sum.v % capped) % (U32Max + 1))

\* The same function with the core index returned when there are no cores.
group_for_core_index_when_no_cores(info, core_index, cores, tgt) ==
    IF info.group_rotation_frequency = 0 \/ cores = 0 THEN Value(core_index)
    ELSE
        LET capped == min(cores, U32Max)
            blocks_since_start == saturating_sub(info.now, info.session_start_block)
            rotations == blocks_since_start \div info.group_rotation_frequency
            sum == checked_add(core_index, rotations, tgt.usize_max, tgt)
        IN  IF sum = Panic THEN Panic
            ELSE Value((sum.v % capped) % (U32Max + 1))

\* GroupRotationInfo::group_for_core
group_for_core(info, core_index, cores, tgt) ==
    IF info.group_rotation_frequency = 0 THEN Value(core_index)
    ELSE IF cores = 0 THEN Value(0)
    ELSE
        LET capped == min(cores, U32Max)
            blocks_since_start == saturating_sub(info.now, info.session_start_block)
            rotations == blocks_since_start \div info.group_rotation_frequency
            sum == checked_add(core_index, rotations, tgt.usize_max, tgt)
        IN  IF sum = Panic THEN Panic
            ELSE Value((sum.v % capped) % (U32Max + 1))

\* GroupRotationInfo::next_rotation_at, with N = BlockNumber
next_rotation_at(info, tgt) ==
    IF info.group_rotation_frequency = 0 THEN Value(0)
    ELSE
        LET cycle_once == checked_add(info.now, info.group_rotation_frequency,
                                      U32Max, tgt)
        IN  IF cycle_once = Panic THEN Panic
            ELSE Value(cycle_once.v
                       - (saturating_sub(cycle_once.v, info.session_start_block)
                            % info.group_rotation_frequency))

\* The same function rounding down to a multiple of the frequency, whatever the
\* session's first block is.
last_rotation_at_from_zero(info, tgt) ==
    IF info.group_rotation_frequency = 0 THEN Value(0)
    ELSE Value(info.now - (info.now % info.group_rotation_frequency))

\* GroupRotationInfo::last_rotation_at, with N = BlockNumber
last_rotation_at(info, tgt) ==
    IF info.group_rotation_frequency = 0 THEN Value(0)
    ELSE Value(info.now
               - (saturating_sub(info.now, info.session_start_block)
                    % info.group_rotation_frequency))

NoCall == [fn |-> "none"]

GroupForCore ==
    /\ rot_call = NoCall
    /\ \E core_index \in U32, cores \in 0..(U32Max + 1) :
        /\ cores <= target.usize_max
        /\ rot_call' = [fn |-> "group_for_core", core_index |-> core_index,
                        cores |-> cores]
        /\ rot_result' = group_for_core(rotation_info, core_index, cores, target)
    /\ UNCHANGED <<rotation_info, target>>
    /\ UNCHANGED <<bc_vars, cs_vars, pl_vars>>

NextRotationAt ==
    /\ rot_call = NoCall
    /\ rot_call' = [fn |-> "next_rotation_at"]
    /\ rot_result' = next_rotation_at(rotation_info, target)
    /\ UNCHANGED <<rotation_info, target>>
    /\ UNCHANGED <<bc_vars, cs_vars, pl_vars>>

LastRotationAt ==
    /\ rot_call = NoCall
    /\ rot_call' = [fn |-> "last_rotation_at"]
    /\ rot_result' = last_rotation_at(rotation_info, target)
    /\ UNCHANGED <<rotation_info, target>>
    /\ UNCHANGED <<bc_vars, cs_vars, pl_vars>>

\* The chain advances by one block: the next query is made with now + 1.
AdvanceBlock ==
    /\ rot_call = NoCall
    /\ rotation_info.now < U32Max
    /\ rotation_info' = [rotation_info EXCEPT !.now = @ + 1]
    /\ UNCHANGED <<target, rot_call, rot_result>>
    /\ UNCHANGED <<bc_vars, cs_vars, pl_vars>>

InitRotation ==
    /\ rotation_info \in [session_start_block : U32, group_rotation_frequency : U32,
                          now : U32]
    /\ target \in Targets
    /\ rot_call = NoCall
    /\ rot_result = RNone
    /\ IdleBacking /\ IdleCollator /\ IdlePayload

NextRotation == GroupForCore \/ NextRotationAt \/ LastRotationAt \/ AdvanceBlock

SpecRotation == InitRotation /\ [][NextRotation]_vars

(***************************************************************************)
(* Properties of the rotation arithmetic.                                  *)
(***************************************************************************)
CalledGroupForCore == rot_call.fn = "group_for_core"

\* floor(elapsed / frequency), elapsed = now - session_start_block saturating at 0
Rotations(info) ==
    (IF info.now > info.session_start_block
     THEN info.now - info.session_start_block ELSE 0)
        \div info.group_rotation_frequency

\* C9 (as claimed): with group_rotation_frequency != 0 and total_cores != 0,
\* group_for_core is (core_index + rotations) mod min(total_cores, u32::MAX); in
\* particular it is core_index mod total_cores for every now < session_start_block.
C9_GroupForCoreFormula ==
    (CalledGroupForCore /\ rotation_info.group_rotation_frequency # 0
        /\ rot_call.cores # 0)
    => /\ rot_result = Value((rot_call.core_index + Rotations(rotation_info))
                                % min(rot_call.cores, U32Max))
       /\ (rotation_info.now < rotation_info.session_start_block
             /\ rot_call.cores <= U32Max)
          => rot_result = Value(rot_call.core_index % rot_call.cores)

\* C10: with group_rotation_frequency == 0, group_for_core returns core_index
\* itself, with no modulo and no wraparound, whatever now, session_start_block,
\* core_index and total_cores are.
C10_NoRotation ==
    (CalledGroupForCore /\ rotation_info.group_rotation_frequency = 0)
    => rot_result = Value(rot_call.core_index)

\* Rotation disabled, no cores at all, and a core index that is not 0.
C10_Witness ==
    /\ CalledGroupForCore
    /\ rotation_info.group_rotation_frequency = 0
    /\ rot_call.cores = 0
    /\ rot_call.core_index = U32Max
    /\ rot_result = Value(U32Max)

\* Rotation disabled and a core index beyond the number of cores.
C10_WitnessBeyondCores ==
    /\ CalledGroupForCore
    /\ rotation_info.group_rotation_frequency = 0
    /\ rot_call.cores = 2
    /\ rot_call.core_index = 5
    /\ rotation_info.now > rotation_info.session_start_block
    /\ rot_result = Value(5)

\* C11 (as claimed): with total_cores == 0, group_for_core returns GroupIndex(0)
\* for every rotation_info and every core_index.
C11_NoCoresGivesZero ==
    (CalledGroupForCore /\ rot_call.cores = 0) => rot_result = Value(0)

\* C11 (amended): with total_cores == 0 and group_rotation_frequency != 0,
\* group_for_core returns GroupIndex(0) for every session_start_block, now and
\* core_index; with group_rotation_frequency == 0 it returns core_index.
C11_NoCoresGivesZeroWhenRotating ==
    (CalledGroupForCore /\ rot_call.cores = 0)
    => rot_result = IF rotation_info.group_rotation_frequency # 0
                    THEN Value(0) ELSE Value(rot_call.core_index)

\* No cores, rotation enabled, a core index that is not 0, some blocks elapsed.
C11_Witness ==
    /\ CalledGroupForCore
    /\ rot_call.cores = 0
    /\ rot_call.core_index = 3
    /\ rotation_info.group_rotation_frequency = 2
    /\ rotation_info.now > rotation_info.session_start_block + 2
    /\ rot_result = Value(0)

\* A rotation boundary of info: session_start_block + k * frequency, k >= 0.
Boundary(info, m) ==
    /\ m >= info.session_start_block
    /\ (m - info.session_start_block) % info.group_rotation_frequency = 0

AtBlock(info, m) == [info EXCEPT !.now = m]

\* The claim of C12 for one core of total_cores cores, at a step from info (now =
\* n) to next (now = n + 1).
LockstepFor(info, next, core, cores) ==
    LET g == group_for_core(info, core, cores, target)
        h == group_for_core(next, core, cores, target)
        nra == next_rotation_at(info, target)
        lra == last_rotation_at(info, target)
    IN  /\ g.tag = "Value" /\ h.tag = "Value" /\ nra.tag = "Value" /\ lra.tag = "Value"
        /\ ~Boundary(info, next.now) => h = g
        /\ Boundary(info, next.now) => h = Value((g.v + 1) % cores)
        /\ Boundary(info, next.now) <=> nra.v = next.now
        /\ \A m \in lra.v..(nra.v - 1) :
               group_for_core(AtBlock(info, m), core, cores, target) = g

\* C12 (as claimed): with group_rotation_frequency > 0 and total_cores > 0, when
\* now advances from n to n + 1 (n >= session_start_block) every core keeps its
\* group unless n + 1 is a rotation boundary, where every core's group becomes
\* (previous group + 1) mod total_cores; the groups change exactly at
\* next_rotation_at computed at n, and are constant over
\* [last_rotation_at, next_rotation_at).  (Taken for total_cores up to u32::MAX
\* and core indices below total_cores.)
C12_Lockstep ==
    [][(/\ rotation_info'.now = rotation_info.now + 1
        /\ rotation_info.group_rotation_frequency > 0
        /\ rotation_info.now >= rotation_info.session_start_block)
       => \A cores \in 1..U32Max : \A core \in 0..(cores - 1) :
             LockstepFor(rotation_info, rotation_info', core, cores)]_vars

CalledNextRotationAt == rot_call.fn = "next_rotation_at"
CalledLastRotationAt == rot_call.fn = "last_rotation_at"

\* v is the smallest rotation boundary of info strictly after info.now.
FirstBoundaryAfterNow(info, v) ==
    /\ v > info.now
    /\ Boundary(info, v)
    /\ \A m \in (info.now + 1)..(v - 1) : ~Boundary(info, m)

\* v is the largest rotation boundary of info at or before info.now.
LastBoundaryUpToNow(info, v) ==
    /\ v <= info.now
    /\ Boundary(info, v)
    /\ \A m \in (v + 1)..info.now : ~Boundary(info, m)

\* C13 (as claimed): next_rotation_at returns 0 when group_rotation_frequency
\* == 0; otherwise, for every now and session_start_block, the smallest rotation
\* boundary strictly greater than now.
C13_NextRotationAt ==
    CalledNextRotationAt =>
        IF rotation_info.group_rotation_frequency = 0
        THEN rot_result = Value(0)
        ELSE /\ rot_result.tag = "Value"
             /\ FirstBoundaryAfterNow(rotation_info, rot_result.v)

\* C14 (as claimed): last_rotation_at returns 0 when group_rotation_frequency
\* == 0; otherwise, for every now and session_start_block, the largest rotation
\* boundary <= now (now itself when now is a boundary).
C14_LastRotationAt ==
    CalledLastRotationAt =>
        IF rotation_info.group_rotation_frequency = 0
        THEN rot_result = Value(0)
        ELSE /\ rot_result.tag = "Value"
             /\ LastBoundaryUpToNow(rotation_info, rot_result.v)

\* C14 (amended): last_rotation_at returns 0 when group_rotation_frequency == 0;
\* otherwise, for every now >= session_start_block, the largest rotation boundary
\* <= now (now itself when now is a boundary), and for every now <
\* session_start_block, where no boundary is <= now, now itself.
C14_LastRotationAtFromStart ==
    CalledLastRotationAt =>
        IF rotation_info.group_rotation_frequency = 0
        THEN rot_result = Value(0)
        ELSE IF rotation_info.now >= rotation_info.session_start_block
        THEN /\ rot_result.tag = "Value"
             /\ LastBoundaryUpToNow(rotation_info, rot_result.v)
        ELSE rot_result = Value(rotation_info.now)

\* A session that started at block 1 and rotates every 3 blocks, asked at block
\* 6: the last rotation was at block 4.
C14_Witness ==
    /\ CalledLastRotationAt
    /\ rotation_info = [session_start_block |-> 1, group_rotation_frequency |-> 3,
                        now |-> 6]
    /\ rot_result = Value(4)

\* The same session asked at a boundary: block 7 itself.
C14_WitnessAtBoundary ==
    /\ CalledLastRotationAt
    /\ rotation_info = [session_start_block |-> 1, group_rotation_frequency |-> 3,
                        now |-> 7]
    /\ rot_result = Value(7)

\* The addition a + b in a type of maximum max neither panics nor wraps.
AddsWithoutOverflow(a, b, max) == checked_add(a, b, max, target) = Value(a + b)

\* C15 (as claimed): for every session_start_block, group_rotation_frequency, now
\* and total_cores, group_for_core, next_rotation_at and last_rotation_at
\* complete with no integer overflow, no underflow and no division by zero.
C15_NeverFaults ==
    /\ rot_result.tag # "Panic"
    /\ (rot_result.tag = "Value") => rot_result.v \in 0..U32Max
    /\ (CalledNextRotationAt /\ rotation_info.group_rotation_frequency # 0)
        => AddsWithoutOverflow(rotation_info.now,
                               rotation_info.group_rotation_frequency, U32Max)
    /\ (CalledGroupForCore /\ rotation_info.group_rotation_frequency # 0
            /\ rot_call.cores # 0)
        => AddsWithoutOverflow(rot_call.core_index, Rotations(rotation_info),
                               target.usize_max)

\* C17 (as claimed): at every block height, with group_rotation_frequency > 0
\* and 0 < total_cores <= u32::MAX, group_for_core on the core indices
\* 0..total_cores-1 is a bijection onto the group indices 0..total_cores-1: the
\* result is below total_cores and no other core gets the same group.
C17_CoresToGroupsBijection ==
    (CalledGroupForCore /\ rotation_info.group_rotation_frequency > 0
        /\ rot_call.cores > 0 /\ rot_call.cores <= U32Max
        /\ rot_call.core_index < rot_call.cores)
    => /\ rot_result.tag = "Value"
       /\ rot_result.v < rot_call.cores
       /\ \A other \in (0..(rot_call.cores - 1)) \ {rot_call.core_index} :
              group_for_core(rotation_info, other, rot_call.cores, target) # rot_result
       /\ \A group \in 0..(rot_call.cores - 1) :
              \E core \in 0..(rot_call.cores - 1) :
                  group_for_core(rotation_info, core, rot_call.cores, target) = Value(group)

(***************************************************************************)
(* Properties of check_candidate_backing.                                  *)
(***************************************************************************)
\* The 0-based positions of the set bits of a bitfield.
SetBits(bits) == {i \in 0..(Len(bits) - 1) : bits[i + 1]}

\* The position of the n-th set bit (n >= 1), in ascending order.
NthSetBit(bits, n) ==
    CHOOSE i \in SetBits(bits) : Cardinality({j \in SetBits(bits) : j < i}) = n - 1

BcDone == bc_pc = "done"

PassesLengthChecks ==
    /\ Len(backed.validator_indices) = group_len
    /\ Len(backed.validity_votes) <= group_len

\* The payload vote n has to be signed over: the canonical candidate hash and the
\* signing context, in the shape of the vote's kind.
ExpectedPayload(n) ==
    signed_payload(backed.validity_votes[n], CommittedHash(backed.candidate),
                   signing_context)

\* Vote n passes the verification its position asks for: there is an n-th set
\* bit, the lookup knows the validator at it, and the vote's signature is that
\* validator's, over the expected payload.
VoteVerifies(n) ==
    /\ n <= Cardinality(SetBits(backed.validator_indices))
    /\ LET id == validator_lookup(NthSetBit(backed.validator_indices, n))
       IN  /\ id # None
           /\ Verify(backed.validity_votes[n].sig, ExpectedPayload(n), id.v)

\* C1: no partial acceptance.  When check_candidate_backing returns Ok, every
\* entry of validity_votes was verified, the n-th one against the identity that
\* validator_lookup gives for the position of the n-th set bit, over the payload
\* built from the canonical candidate hash and the signing context; and so a
\* single vote failing that verification makes the result an error.
C1_NoPartialAcceptance ==
    BcDone =>
        /\ bc_result.tag = "Ok" =>
            /\ Len(verifs) = Len(backed.validity_votes)
            /\ \A n \in 1..Len(backed.validity_votes) :
                /\ VoteVerifies(n)
                /\ verifs[n] =
                     [vote |-> n,
                      validator |->
                          validator_lookup(NthSetBit(backed.validator_indices, n)).v,
                      payload |-> ExpectedPayload(n)]
        /\ (\E n \in 1..Len(backed.validity_votes) : ~VoteVerifies(n)) =>
                bc_result = RErr

\* A successful check of two votes behind a bitfield whose first bit is clear:
\* the votes pair with positions 1 and 2, not 0 and 1.
C1_Witness ==
    /\ BcDone
    /\ bc_result.tag = "Ok"
    /\ Len(backed.validity_votes) >= 1
    /\ Len(backed.validator_indices) >= 2
    /\ ~backed.validator_indices[1]

\* C2 (as claimed): with the two length preconditions passed, a number of set
\* bits different from the number of votes, in either direction, is an error.
C2_CountMismatchIsError ==
    (BcDone /\ PassesLengthChecks
        /\ Cardinality(SetBits(backed.validator_indices)) # Len(backed.validity_votes))
    => bc_result = RErr

\* C3 (as claimed): Ok(n) returns the number of signatures checked, and that is
\* the number of set bits of validator_indices.
C3_OkCountsSetBits ==
    (BcDone /\ bc_result.tag = "Ok") =>
        /\ bc_result.n = Len(verifs)
        /\ bc_result.n = Cardinality(SetBits(backed.validator_indices))

\* C4 (as claimed): a set bit whose index validator_lookup does not know makes
\* the check fail.
C4_LookupMissIsError ==
    (BcDone /\ \E i \in SetBits(backed.validator_indices) : validator_lookup(i) = None)
    => bc_result = RErr

\* C5: when validator_indices.len() != group_len or validity_votes.len() >
\* group_len the check ends at once with an error: it never enters the loop, and
\* no lookup and no signature verification is made, whatever the votes and the
\* lookup are.
C5_LengthErrorsComeFirst ==
    (bc_pc # "start" /\ ~PassesLengthChecks) =>
        /\ bc_pc = "done"
        /\ bc_result = RErr
        /\ lookups = <<>>
        /\ verifs = <<>>

\* Too many votes for the group, the first of them properly signed by the
\* validator at a set bit the lookup knows: refused before anything is looked at.
C5_Witness ==
    /\ BcDone
    /\ Len(backed.validator_indices) = group_len
    /\ Len(backed.validity_votes) > group_len
    /\ group_len >= 1
    /\ VoteVerifies(1)
    /\ bc_result = RErr

\* C6: with validator_indices of length group_len and all bits clear, the check
\* returns Ok(0) exactly when validity_votes is empty and an error otherwise, and
\* neither validator_lookup nor signature verification is consulted.
C6_AllBitsClear ==
    (Len(backed.validator_indices) = group_len
        /\ SetBits(backed.validator_indices) = {})
    => /\ lookups = <<>>
       /\ verifs = <<>>
       /\ BcDone =>
            /\ bc_result = ROk(0) <=> backed.validity_votes = <<>>
            /\ backed.validity_votes # <<>> => bc_result = RErr

\* A non-empty bitfield with every bit clear and one vote supplied: an error.
C6_Witness ==
    /\ BcDone
    /\ group_len >= 1
    /\ Len(backed.validator_indices) = group_len
    /\ SetBits(backed.validator_indices) = {}
    /\ Len(backed.validity_votes) = 1
    /\ bc_result = RErr
    /\ lookups = <<>>

\* The canonical hash of a committed receipt, written out: the digest of the
\* plain receipt made of the descriptor and the digest of the commitments.
CanonicalHash(c) ==
    BlakeTwo256(<<"CandidateReceipt", c.descriptor,
                  BlakeTwo256(<<"CandidateCommitments", c.commitments>>)>>)

\* C16: for every CommittedCandidateReceipt c, c.hash() equals
\* c.to_plain().hash(), where to_plain() keeps the descriptor and sets
\* commitments_hash to the hash of the commitments; the hash is not the digest of
\* the committed form's own encoding; and every payload check_candidate_backing
\* verifies, hence every vote it accepts, is over this canonical hash.
C16_CanonicalHashInPayloads ==
    LET c == backed.candidate
    IN  /\ to_plain(c).descriptor = c.descriptor
        /\ to_plain(c).commitments_hash = CommitmentsHash(c.commitments)
        /\ CommittedHash(c) = ReceiptHash(to_plain(c))
        /\ CommittedHash(c) = CanonicalHash(c)
        /\ CanonicalHash(c) # DirectHash(c)
        /\ \A i \in 1..Len(verifs) : verifs[i].payload.hash = CanonicalHash(c)
        /\ (BcDone /\ bc_result.tag = "Ok")
            => \A n \in 1..Len(backed.validity_votes) :
                   backed.validity_votes[n].sig.msg.hash = CanonicalHash(c)

C16_Witness ==
    /\ BcDone
    /\ bc_result.tag = "Ok"
    /\ Len(verifs) >= 1
    /\ verifs[1].payload.hash = CanonicalHash(backed.candidate)

\* A vote signed over the hash of a receipt with other commitments is rejected.
C16_WitnessOtherCommitments ==
    /\ BcDone
    /\ bc_result = RErr
    /\ backed.candidate = OtherCandidate
    /\ Len(verifs) >= 1
    /\ backed.validity_votes[1].sig.msg.hash = CanonicalHash(TheCandidate)
    /\ verifs[1].payload.hash = CanonicalHash(OtherCandidate)

=============================================================================
